---------------------------- MODULE Spec2Model ----------------------------
(***************************************************************************)
(* Model of checkEmulator() in src/main.js: nine probes run one after the  *)
(* other, each pushing evidence strings and raising the isEmulator flag,   *)
(* followed by the resolution of the OS name and the return of the report. *)
(*                                                                         *)
(* JavaScript strings that the code lower-cases, upper-cases, slices or    *)
(* searches are sequences of one-character strings.  An evidence is the    *)
(* template literal of its push site (tmpl), the rendered interpolations   *)
(* (args) and the interpolated error message (msg); probe and kind label   *)
(* the push site (which probe, try branch or catch branch).                *)
(*                                                                         *)
(* Each step reads its source when the code does: app.isPackaged and       *)
(* process.env are read once each, a provider query is answered when it is *)
(* awaited.  An answer is a rejection, null, or a record whose fields are  *)
(* strings or missing; the array of network interfaces may hold null.      *)
(***************************************************************************)
EXTENDS Naturals, Sequences, FiniteSets

VARIABLES
  pc,          \* the statement checkEmulator executes next
  isEmulator,  \* let isEmulator
  evidences,   \* let evidences
  platform,    \* process.platform
  input,       \* what the last provider query or file read answered
  outcome,     \* per probe: how its step ended
  result       \* the value checkEmulator returned, once it has

vars == <<pc, isEmulator, evidences, platform, input, outcome, result>>

(***************************** bounds **************************************)
\* Longest list of network interfaces the provider answers with.
MaxIfaces == 2

(************************* JavaScript strings ******************************)
UpperLetters == <<"A", "B", "C", "D", "E", "F", "G", "H", "I", "J", "K", "L", "M", "N", "O", "P", "Q", "R", "S", "T", "U", "V", "W", "X", "Y", "Z">>
LowerLetters == <<"a", "b", "c", "d", "e", "f", "g", "h", "i", "j", "k", "l", "m", "n", "o", "p", "q", "r", "s", "t", "u", "v", "w", "x", "y", "z">>

LowerChar(c) ==
  IF \E i \in 1..Len(UpperLetters) : UpperLetters[i] = c
  THEN LowerLetters[CHOOSE i \in 1..Len(UpperLetters) : UpperLetters[i] = c]
  ELSE c

UpperChar(c) ==
  IF \E i \in 1..Len(LowerLetters) : LowerLetters[i] = c
  THEN UpperLetters[CHOOSE i \in 1..Len(LowerLetters) : LowerLetters[i] = c]
  ELSE c

\* String.prototype.toLowerCase / toUpperCase
toLowerCase(s) == [i \in 1..Len(s) |-> LowerChar(s[i])]
toUpperCase(s) == [i \in 1..Len(s) |-> UpperChar(s[i])]

\* String.prototype.includes(t): t occurs in s as a contiguous substring.
includes(s, t) ==
  /\ Len(t) <= Len(s)
  /\ \E i \in 0..(Len(s) - Len(t)) : SubSeq(s, i + 1, i + Len(t)) = t

\* String.prototype.substring(0, n): the first n characters, or all of s.
substring0(s, n) == SubSeq(s, 1, IF Len(s) < n THEN Len(s) ELSE n)

(************************* JavaScript values *******************************)
\* A field of a provider answer: a string, or missing (undefined).
Undefined == [t |-> "undefined", s |-> <<>>]
Str(s)    == [t |-> "string", s |-> s]

\* v || '' for a field that is a string or missing.
OrEmpty(v) == IF v.t = "string" /\ v.s # <<>> THEN v.s ELSE <<>>

\* Truthiness of a field that is a string or missing.
Truthy(v) == v.t = "string" /\ v.s # <<>>

\* `${v}` for a field that is a string or missing.
Render(v) == IF v.t = "string" THEN v.s ELSE <<"u", "n", "d", "e", "f", "i", "n", "e", "d">>

\* What a rejected query (or a failing statement of a try block) throws: an
\* Error carrying a message, or null/undefined.
NoThrow     == [t |-> "none",   message |-> ""]
ErrorOf(m)  == [t |-> "Error",  message |-> m]
ThrownNull  == [t |-> "null",   message |-> ""]
Rejections  == {ErrorOf("EACCES"), ThrownNull}

\* The TypeError of reading a property of null or undefined.
TypeErrorNull == ErrorOf("Cannot read properties of null")

\* `${error.message}` in a catch branch: defined for every thrown value
\* except null and undefined, where reading .message itself throws.
CatchThrows(e)  == e.t = "null"
MessageOf(e)    == IF e.t = "Error" THEN e.message ELSE "undefined"

\* The provider's answer to one query: a rejection or a resolved value.
Rejected(e) == [status |-> "rejected", thrown |-> e, value |-> <<>>]
Resolved(v) == [status |-> "resolved", thrown |-> NoThrow, value |-> <<v>>]
ResolvedNull == [status |-> "resolved", thrown |-> NoThrow, value |-> <<>>]
NoReply     == [status |-> "none", thrown |-> NoThrow, value |-> <<>>]
IsNull(r)   == r.status = "resolved" /\ r.value = <<>>
ValueOf(r)  == r.value[1]

(****************************** evidence ***********************************)
Probes == <<"mode", "system", "chassis", "cpu", "net", "bios", "uuid",
            "cgroup", "envvar">>

Positive(p, tmpl, args) ==
  [probe |-> p, kind |-> "positive", tmpl |-> tmpl, args |-> args, msg |-> ""]

ErrorEvidence(p, tmpl, e) ==
  [probe |-> p, kind |-> "error", tmpl |-> tmpl, args |-> <<>>,
   msg |-> MessageOf(e)]

\* The state of one try block when control leaves it: the evidences pushed
\* so far and the value thrown, if any.
Body(pushed, thrown) == [pushed |-> pushed, thrown |-> thrown]

\* evidences.push(...), for the entries one step pushes, in order.
\* Variant: unshift instead of push.
Push_Front(seq, entries) == entries \o seq
Push(seq, entries) == seq \o entries

\* Whether the statements of a try block executed isEmulator = true: every
\* push of a try block is paired with that assignment.
\* Variant: a throw raises the verdict too.
Raises_OnThrow(body) == body.pushed # <<>> \/ body.thrown # NoThrow
Raises(body) == body.pushed # <<>>

\* What a catch branch that pushes tmpl leaves in evidences.
\* Variant: an empty catch branch.
Caught_Swallow(p, tmpl, body) == body.pushed
Caught(p, tmpl, body) ==
  Append(body.pushed, ErrorEvidence(p, tmpl, body.thrown))

Ending(r, body) ==
  IF body.thrown = NoThrow THEN "ok"
  ELSE IF r.status = "rejected" THEN "rejected" ELSE "threw"

\* try { body } catch (error) { evidences.push(`tmpl${error.message}`) }
\* A thrown null or undefined makes the catch branch itself throw, which
\* rejects the promise checkEmulator returned.
TryCatch(p, tmpl, r, body, next) ==
  /\ input' = r
  /\ isEmulator' = (isEmulator \/ Raises(body))
  /\ outcome' = [outcome EXCEPT ![p] = Ending(r, body)]
  /\ IF body.thrown = NoThrow
     THEN evidences' = Push(evidences, body.pushed) /\ pc' = next
     ELSE IF CatchThrows(body.thrown)
     THEN evidences' = Push(evidences, body.pushed) /\ pc' = "raised"
     ELSE evidences' = Push(evidences, Caught(p, tmpl, body)) /\ pc' = next
  /\ UNCHANGED <<platform, result>>

\* [f(x) : x in seq], in order.
RECURSIVE FlatMap(_, _)
FlatMap(F(_), seq) ==
  IF seq = <<>> THEN <<>> ELSE F(Head(seq)) \o FlatMap(F, Tail(seq))

(**************************** 1. execution mode ****************************)
NodeEnvs == {Undefined, Str(<<"d", "e", "v", "e", "l", "o", "p", "m", "e", "n", "t">>), Str(<<"p", "r", "o", "d", "u", "c", "t", "i", "o", "n">>)}
ModeInputs ==
  {Resolved([isPackaged |-> b, NODE_ENV |-> e]) : b \in BOOLEAN, e \in NodeEnvs}

ModeHits(ctx) ==
  (IF ~ctx.isPackaged
   THEN <<Positive("mode", "app.isPackaged=false (development mode)", <<>>)>>
   ELSE <<>>)
  \o
  (IF ctx.NODE_ENV = Str(<<"d", "e", "v", "e", "l", "o", "p", "m", "e", "n", "t">>)
   THEN <<Positive("mode", "NODE_ENV=development", <<>>)>>
   ELSE <<>>)

ModeProbe ==
  /\ pc = "mode"
  /\ \E r \in ModeInputs :
       LET hits == ModeHits(ValueOf(r)) IN
       /\ input' = NoReply
       /\ isEmulator' = (isEmulator \/ hits # <<>>)
       /\ evidences' = Push(evidences, hits)
       /\ outcome' = [outcome EXCEPT !["mode"] = "ok"]
  /\ pc' = "system"
  /\ UNCHANGED <<platform, result>>

(**************************** 2. system identity ***************************)
virtualizationIndicators ==
  << <<"v", "m", "w", "a", "r", "e">>, <<"v", "i", "r", "t", "u", "a", "l", "b", "o", "x">>, <<"q", "e", "m", "u">>, <<"k", "v", "m">>, <<"h", "y", "p", "e", "r", "-", "v">>,
     <<"p", "a", "r", "a", "l", "l", "e", "l", "s">>, <<"x", "e", "n">>, <<"b", "h", "y", "v", "e">>, <<"b", "o", "c", "h", "s">>, <<"a", "c", "r", "n">>, <<"o", "r", "a", "c", "l", "e">>,
     <<"a", "z", "u", "r", "e">> >>

Manufacturers == {Undefined, Str(<<"V", "M", "w", "a", "r", "e", ",", " ", "I", "n", "c", ".">>)}
Models ==
  {Str(<<"X", "P", "S", " ", "1", "3">>), Str(<<"V", "M", "w", "a", "r", "e", " ", "V", "i", "r", "t", "u", "a", "l", " ", "P", "l", "a", "t", "f", "o", "r", "m">>), Str(<<"K", "V", "M", "/", "Q", "E", "M", "U">>)}
SystemReplies ==
  {Rejected(e) : e \in Rejections} \cup {ResolvedNull} \cup
  {Resolved([manufacturer |-> m, model |-> d]) :
     m \in Manufacturers, d \in Models}

SystemTmpl ==
  "Detected virtualization indicator: \"${indicator}\" in manufacturer/model (manufacturer: \"${system.manufacturer}\", model: \"${system.model}\")"

\* The forEach over virtualizationIndicators: one push per indicator that
\* either lower-cased field includes.
\* Variant: one push per field that includes the indicator.
SystemHits_PerField(system) ==
  LET manufacturer == toLowerCase(OrEmpty(system.manufacturer))
      model        == toLowerCase(OrEmpty(system.model))
      One(indicator) ==
        <<Positive("system", SystemTmpl,
                   <<indicator, Render(system.manufacturer),
                     Render(system.model)>>)>>
      Hit(indicator) ==
        (IF includes(manufacturer, indicator) THEN One(indicator) ELSE <<>>)
        \o (IF includes(model, indicator) THEN One(indicator) ELSE <<>>)
  IN FlatMap(Hit, virtualizationIndicators)

SystemHits(system) ==
  LET manufacturer == toLowerCase(OrEmpty(system.manufacturer))
      model        == toLowerCase(OrEmpty(system.model))
      Hit(indicator) ==
        IF includes(manufacturer, indicator) \/ includes(model, indicator)
        THEN <<Positive("system", SystemTmpl,
                        <<indicator, Render(system.manufacturer),
                          Render(system.model)>>)>>
        ELSE <<>>
  IN FlatMap(Hit, virtualizationIndicators)

SystemBody(r) ==
  IF r.status = "rejected" THEN Body(<<>>, r.thrown)
  ELSE IF IsNull(r) THEN Body(<<>>, TypeErrorNull)
  ELSE Body(SystemHits(ValueOf(r)), NoThrow)

SystemErrTmpl == "Error detecting system virtualization: ${error.message}"

SystemProbe ==
  /\ pc = "system"
  /\ \E r \in SystemReplies :
       TryCatch("system", SystemErrTmpl, r, SystemBody(r), "chassis")

(******************************* 3. chassis ********************************)
ChassisTypes == {Undefined, Str(<<"N", "o", "t", "e", "b", "o", "o", "k">>), Str(<<"V", "i", "r", "t", "u", "a", "l", " ", "M", "a", "c", "h", "i", "n", "e">>)}
ChassisReplies ==
  {Rejected(e) : e \in Rejections} \cup {ResolvedNull} \cup
  {Resolved([type |-> t]) : t \in ChassisTypes}

ChassisTmpl == "Chassis type indicates virtualization: \"${chassis.type}\""

\* chassis && chassis.type && chassis.type.toLowerCase().includes('virtual')
ChassisBody(r) ==
  IF r.status = "rejected" THEN Body(<<>>, r.thrown)
  ELSE IF IsNull(r) THEN Body(<<>>, NoThrow)
  ELSE LET chassis == ValueOf(r) IN
       IF Truthy(chassis.type)
          /\ includes(toLowerCase(chassis.type.s), <<"v", "i", "r", "t", "u", "a", "l">>)
       THEN Body(<<Positive("chassis", ChassisTmpl,
                            <<Render(chassis.type)>>)>>, NoThrow)
       ELSE Body(<<>>, NoThrow)

\* Variant: another wording.
ChassisErrTmpl_Reworded == "Error detecting chassis: ${error.message}"
ChassisErrTmpl == "Error retrieving chassis information: ${error.message}"

ChassisProbe ==
  /\ pc = "chassis"
  /\ \E r \in ChassisReplies :
       TryCatch("chassis", ChassisErrTmpl, r, ChassisBody(r), "cpu")

(********************************* 4. CPU **********************************)
CpuBrands ==
  {Undefined, Str(<<"I", "n", "t", "e", "l", "(", "R", ")", " ", "C", "o", "r", "e", "(", "T", "M", ")", " ", "i", "7">>), Str(<<"Q", "E", "M", "U", " ", "V", "i", "r", "t", "u", "a", "l", " ", "C", "P", "U">>)}
CpuReplies ==
  {Rejected(e) : e \in Rejections} \cup
  {Resolved([brand |-> b]) : b \in CpuBrands}

CpuTmpl == "CPU brand indicates virtualization: \"${cpu.brand}\""

CpuBody(r) ==
  IF r.status = "rejected" THEN Body(<<>>, r.thrown)
  ELSE IF IsNull(r) THEN Body(<<>>, TypeErrorNull)
  ELSE LET cpu      == ValueOf(r)
           cpuBrand == toLowerCase(OrEmpty(cpu.brand))
       IN IF \/ includes(cpuBrand, <<"v", "i", "r", "t", "u", "a", "l">>)
             \/ includes(cpuBrand, <<"v", "m", "w", "a", "r", "e">>)
             \/ includes(cpuBrand, <<"q", "e", "m", "u">>)
          THEN Body(<<Positive("cpu", CpuTmpl, <<Render(cpu.brand)>>)>>,
                    NoThrow)
          ELSE Body(<<>>, NoThrow)

CpuErrTmpl == "Error retrieving CPU information: ${error.message}"

CpuProbe ==
  /\ pc = "cpu"
  /\ \E r \in CpuReplies :
       TryCatch("cpu", CpuErrTmpl, r, CpuBody(r), "net")

(************************** 5. network interfaces **************************)
virtualMacPrefixes ==
  << <<"0", "0", ":", "0", "5", ":", "6", "9">>, <<"0", "0", ":", "0", "C", ":", "2", "9">>, <<"0", "0", ":", "1", "C", ":", "1", "4">>, <<"0", "0", ":", "5", "0", ":", "5", "6">>, <<"0", "0", ":", "1", "C", ":", "4", "2">>,
     <<"0", "0", ":", "0", "3", ":", "F", "F">> >>

\* iface.mac.substring(0, 8)
MacPrefixLen == 8

Macs ==
  {Undefined, Str(<<"0", "0", ":", "1", "c", ":", "1", "4", ":", "a", "a", ":", "b", "b", ":", "c", "c">>), Str(<<"0", "0", "1", "C", ":", "1", "4", "0", "0", ":", "0", "0", ":", "0", "0">>),
   Str(<<"A", "A", ":", "0", "0", ":", "1", "C", ":", "1", "4", ":", "B", "B", ":", "C", "C">>)}

Digits == <<"0", "1", "2", "3", "4", "5", "6", "7", "8", "9">>
IfaceName(i) == <<"e", "t", "h">> \o <<Digits[i]>>

\* An element of the answered array: an interface record, or null.
NullIface == [null |-> TRUE, iface |-> <<>>, mac |-> Undefined]
Iface(i, m) == [null |-> FALSE, iface |-> IfaceName(i), mac |-> m]
IfacesAt(i) == {NullIface} \cup {Iface(i, m) : m \in Macs}
IfaceLists ==
  UNION {{l \in [1..n -> UNION {IfacesAt(i) : i \in 1..n}] :
            \A i \in 1..n : l[i] \in IfacesAt(i)} : n \in 0..MaxIfaces}
NetReplies ==
  {Rejected(e) : e \in Rejections} \cup {ResolvedNull} \cup
  {Resolved(l) : l \in IfaceLists}

NetTmpl ==
  "Network interface ${iface.iface} has MAC address ${iface.mac} with virtualization prefix (${prefix})"

\* macPrefix === prefix
MacMatches(macPrefix, prefix) == macPrefix = prefix

\* The callback of netInterfaces.forEach for an interface record.
\* Variant: the prefix may occur anywhere in the upper-cased MAC.
IfaceHits_Substring(iface) ==
  IF Truthy(iface.mac)
  THEN LET Hit(prefix) ==
             IF includes(toUpperCase(iface.mac.s), prefix)
             THEN <<Positive("net", NetTmpl,
                             <<iface.iface, Render(iface.mac), prefix>>)>>
             ELSE <<>>
       IN FlatMap(Hit, virtualMacPrefixes)
  ELSE <<>>

IfaceHits(iface) ==
  IF Truthy(iface.mac)
  THEN LET macPrefix == toUpperCase(substring0(iface.mac.s, MacPrefixLen))
           Hit(prefix) ==
             IF MacMatches(macPrefix, prefix)
             THEN <<Positive("net", NetTmpl,
                             <<iface.iface, Render(iface.mac), prefix>>)>>
             ELSE <<>>
       IN FlatMap(Hit, virtualMacPrefixes)
  ELSE <<>>

\* The index of the first null element of list, or Len(list) + 1.
FirstNull(list) ==
  IF \E i \in 1..Len(list) : list[i].null
  THEN CHOOSE i \in 1..Len(list) :
         list[i].null /\ \A j \in 1..(i - 1) : ~list[j].null
  ELSE Len(list) + 1

\* forEach runs the callback element by element; reading .mac of a null
\* element throws, which ends the loop with the pushes made so far.
NetBody(r) ==
  IF r.status = "rejected" THEN Body(<<>>, r.thrown)
  ELSE IF IsNull(r) THEN Body(<<>>, TypeErrorNull)
  ELSE LET netInterfaces == ValueOf(r)
           k == FirstNull(netInterfaces)
       IN Body(FlatMap(IfaceHits, SubSeq(netInterfaces, 1, k - 1)),
               IF k <= Len(netInterfaces) THEN TypeErrorNull ELSE NoThrow)

NetErrTmpl == "Error retrieving network interface information: ${error.message}"

NetProbe ==
  /\ pc = "net"
  /\ \E r \in NetReplies :
       TryCatch("net", NetErrTmpl, r, NetBody(r), "bios")

(********************************* 6. BIOS *********************************)
biosIndicators ==
  << <<"v", "i", "r", "t", "u", "a", "l">>, <<"v", "m", "w", "a", "r", "e">>, <<"q", "e", "m", "u">>, <<"v", "i", "r", "t", "u", "a", "l", "b", "o", "x">>, <<"x", "e", "n">>,
     <<"p", "a", "r", "a", "l", "l", "e", "l", "s">> >>

BiosVendors == {Undefined, Str(<<"D", "e", "l", "l", " ", "I", "n", "c", ".">>), Str(<<"V", "i", "r", "t", "u", "a", "l", "B", "o", "x">>)}
BiosReplies ==
  {Rejected(e) : e \in Rejections} \cup
  {Resolved([vendor |-> v]) : v \in BiosVendors}

BiosTmpl ==
  "BIOS vendor indicates virtualization: \"${bios.vendor}\" contains \"${indicator}\""

BiosHits(bios) ==
  LET biosVendor == toLowerCase(OrEmpty(bios.vendor))
      Hit(indicator) ==
        IF includes(biosVendor, indicator)
        THEN <<Positive("bios", BiosTmpl, <<Render(bios.vendor), indicator>>)>>
        ELSE <<>>
  IN FlatMap(Hit, biosIndicators)

BiosBody(r) ==
  IF r.status = "rejected" THEN Body(<<>>, r.thrown)
  ELSE IF IsNull(r) THEN Body(<<>>, TypeErrorNull)
  ELSE Body(BiosHits(ValueOf(r)), NoThrow)

BiosErrTmpl == "Error retrieving BIOS information: ${error.message}"

BiosProbe ==
  /\ pc = "bios"
  /\ \E r \in BiosReplies :
       TryCatch("bios", BiosErrTmpl, r, BiosBody(r), "uuid")

(********************************* 7. UUID *********************************)
OsUuids == {Undefined, Str(<<"4", "C", "4", "C", "4", "5", "4", "4", "-", "0", "0", "4", "2">>), Str(<<"V", "M", "w", "a", "r", "e", "-", "5", "6", " ", "4", "d">>)}
UuidReplies ==
  {Rejected(e) : e \in Rejections} \cup {ResolvedNull} \cup
  {Resolved([os |-> u]) : u \in OsUuids}

UuidTmpl == "UUID indicates virtualization: \"${uuidData.os}\""

UuidBody(r) ==
  IF r.status = "rejected" THEN Body(<<>>, r.thrown)
  ELSE IF IsNull(r) THEN Body(<<>>, NoThrow)
  ELSE LET uuidData == ValueOf(r) IN
       IF Truthy(uuidData.os)
       THEN LET uuidOs == toLowerCase(uuidData.os.s) IN
            IF \/ includes(uuidOs, <<"v", "m", "w", "a", "r", "e">>)
               \/ includes(uuidOs, <<"v", "i", "r", "t", "u", "a", "l">>)
               \/ includes(uuidOs, <<"v", "b", "o", "x">>)
            THEN Body(<<Positive("uuid", UuidTmpl, <<Render(uuidData.os)>>)>>,
                      NoThrow)
            ELSE Body(<<>>, NoThrow)
       ELSE Body(<<>>, NoThrow)

UuidErrTmpl == "Error retrieving UUID information: ${error.message}"

UuidProbe ==
  /\ pc = "uuid"
  /\ \E r \in UuidReplies :
       TryCatch("uuid", UuidErrTmpl, r, UuidBody(r), "cgroup")

(**************************** 8. /proc/1/cgroup ****************************)
Platforms == {<<"l", "i", "n", "u", "x">>, <<"w", "i", "n", "3", "2">>, <<"d", "a", "r", "w", "i", "n">>}

CgroupContents ==
  {<<"0", ":", ":", "/", "i", "n", "i", "t", ".", "s", "c", "o", "p", "e">>, <<"0", ":", ":", "/", "d", "o", "c", "k", "e", "r", "/", "3", "f", "4", "e">>, <<"1", ":", "c", "p", "u", ":", "/", "l", "x", "c", "/", "d", "o", "c", "k", "e", "r">>,
   <<"0", ":", ":", "/", "D", "o", "c", "k", "e", "r">>}
CgroupReplies ==
  {Rejected(e) : e \in Rejections} \cup {Resolved(c) : c \in CgroupContents}

CgroupTmpl == "Detected container environment via /proc/1/cgroup"

\* The statements after the await of the try block.
CgroupHits(cgroup) ==
  IF includes(cgroup, <<"d", "o", "c", "k", "e", "r">>) \/ includes(cgroup, <<"l", "x", "c">>)
  THEN <<Positive("cgroup", CgroupTmpl, <<>>)>>
  ELSE <<>>

\* Whether the probe reads the file at all.
\* Variant: no platform guard.
ReadsCgroup_Always(p) == TRUE
ReadsCgroup(p) == p = <<"l", "i", "n", "u", "x">>

\* The catch branch is empty: whatever readFile rejects with is dropped.
CgroupProbe ==
  /\ pc = "cgroup"
  /\ IF ReadsCgroup(platform)
     THEN \E r \in CgroupReplies :
            LET hits == IF r.status = "rejected" THEN <<>>
                        ELSE CgroupHits(ValueOf(r)) IN
            /\ input' = r
            /\ isEmulator' = (isEmulator \/ hits # <<>>)
            /\ evidences' = Push(evidences, hits)
            /\ outcome' = [outcome EXCEPT !["cgroup"] =
                             IF r.status = "rejected" THEN "rejected" ELSE "ok"]
     ELSE /\ input' = NoReply
          /\ outcome' = [outcome EXCEPT !["cgroup"] = "skipped"]
          /\ UNCHANGED <<isEmulator, evidences>>
  /\ pc' = "envvar"
  /\ UNCHANGED <<platform, result>>

(*********************** 9. container environment **************************)
DockerEnvs    == {Undefined, Str(<<>>), Str(<<"1">>)}
ContainerEnvs == {Undefined, Str(<<"p", "o", "d", "m", "a", "n">>)}
EnvInputs ==
  {Resolved([DOCKER_CONTAINER |-> d, CONTAINER |-> c]) :
     d \in DockerEnvs, c \in ContainerEnvs}

EnvTmpl == "Environment variable indicates container/emulator environment"

EnvHits(env) ==
  IF Truthy(env.DOCKER_CONTAINER) \/ Truthy(env.CONTAINER)
  THEN <<Positive("envvar", EnvTmpl, <<>>)>>
  ELSE <<>>

EnvProbe ==
  /\ pc = "envvar"
  /\ \E r \in EnvInputs :
       LET hits == EnvHits(ValueOf(r)) IN
       /\ input' = NoReply
       /\ isEmulator' = (isEmulator \/ hits # <<>>)
       /\ evidences' = Push(evidences, hits)
       /\ outcome' = [outcome EXCEPT !["envvar"] = "ok"]
  /\ pc' = "return"
  /\ UNCHANGED <<platform, result>>

(***************************** OS name, return *****************************)
\* switch (process.platform)
OsName(p) ==
  IF p = <<"w", "i", "n", "3", "2">> THEN <<"W", "i", "n", "d", "o", "w", "s">>
  ELSE IF p = <<"d", "a", "r", "w", "i", "n">> THEN <<"m", "a", "c", "O", "S">>
  ELSE p

NoResult == [returned |-> FALSE, is_emulator |-> FALSE, evidences |-> <<>>,
             os |-> <<>>]
Report(e, ev, os) ==
  [returned |-> TRUE, is_emulator |-> e, evidences |-> ev, os |-> os]

Return ==
  /\ pc = "return"
  /\ result' = Report(isEmulator, evidences, OsName(platform))
  /\ input' = NoReply
  /\ pc' = "done"
  /\ UNCHANGED <<isEmulator, evidences, platform, outcome>>

(****************************** specification ******************************)
ProbeSet == {Probes[i] : i \in 1..Len(Probes)}

Init ==
  /\ pc = "mode"
  /\ isEmulator = FALSE
  /\ evidences = <<>>
  /\ platform \in Platforms
  /\ input = NoReply
  /\ outcome = [p \in ProbeSet |-> "pending"]
  /\ result = NoResult

Next ==
  \/ ModeProbe
  \/ SystemProbe
  \/ ChassisProbe
  \/ CpuProbe
  \/ NetProbe
  \/ BiosProbe
  \/ UuidProbe
  \/ CgroupProbe
  \/ EnvProbe
  \/ Return

Spec == Init /\ [][Next]_vars

(******************************** properties *******************************)
IndexOf(seq, x) == CHOOSE i \in 1..Len(seq) : seq[i] = x
IsPositive(e) == e.kind = "positive"
IsError(e)    == e.kind = "error"
HasPositive(seq) == \E i \in 1..Len(seq) : IsPositive(seq[i])
HasError(seq)    == \E i \in 1..Len(seq) : IsError(seq[i])
PositivesOf(p, seq) ==
  SelectSeq(seq, LAMBDA e : e.probe = p /\ IsPositive(e))
ErrorsOf(p, seq) ==
  SelectSeq(seq, LAMBDA e : e.probe = p /\ IsError(e))
ProbesOf(seq) == [i \in 1..Len(seq) |-> seq[i].probe]

\* The six probes that query the systeminformation provider.
SiProbes == {"system", "chassis", "cpu", "net", "bios", "uuid"}
SiOrder  == <<"system", "chassis", "cpu", "net", "bios", "uuid">>
\* The statement that follows each of them.
After ==
  [system |-> "chassis", chassis |-> "cpu", cpu |-> "net", net |-> "bios",
   bios |-> "uuid", uuid |-> "cgroup"]

\* C1: in the returned report is_emulator is true exactly when the evidences
\* hold at least one positive entry; error entries alone never raise it.
\* The same holds of the running flag and list at every step.
C1_VerdictIffPositive ==
  /\ isEmulator <=> HasPositive(evidences)
  /\ result.returned => (result.is_emulator <=> HasPositive(result.evidences))

C1_Witness ==
  /\ result.returned
  /\ ~result.is_emulator
  /\ HasError(result.evidences)

\* C2: checkEmulator never raises: whatever the provider answers or throws,
\* the call ends by returning a report.
C2_NeverRaises == pc # "raised"

\* C3 as stated: when every provider query fails, the report has
\* is_emulator = false and only error entries, one per queried category.
AllQueriesFail ==
  /\ \A p \in SiProbes : outcome[p] = "rejected"
  /\ outcome["cgroup"] \in {"rejected", "skipped"}

SystemAnswered == pc = "chassis" /\ outcome["system"] = "ok"
SystemEntriesFor(indicator) ==
  Len(SelectSeq(PositivesOf("system", evidences),
                LAMBDA e : e.args[1] = indicator))
FieldsIncluding(indicator) ==
  LET system == ValueOf(input) IN
  (IF includes(toLowerCase(OrEmpty(system.manufacturer)), indicator)
   THEN 1 ELSE 0)
  + (IF includes(toLowerCase(OrEmpty(system.model)), indicator)
     THEN 1 ELSE 0)

\* C4 as stated: the system identity probe records one entry per (field,
\* indicator) match, so two entries for an indicator found in both fields.
C4_OneEntryPerField ==
  SystemAnswered =>
    \A k \in 1..Len(virtualizationIndicators) :
      SystemEntriesFor(virtualizationIndicators[k])
        = FieldsIncluding(virtualizationIndicators[k])

\* C4 amended: the system identity probe records one entry per indicator
\* found in the lower-cased manufacturer or the lower-cased model; an
\* indicator found in both fields gives a single entry, which quotes both raw
\* fields.
C4_OneEntryPerIndicator ==
  SystemAnswered =>
    /\ \A k \in 1..Len(virtualizationIndicators) :
         SystemEntriesFor(virtualizationIndicators[k])
           = IF FieldsIncluding(virtualizationIndicators[k]) > 0 THEN 1 ELSE 0
    /\ \A i \in 1..Len(PositivesOf("system", evidences)) :
         LET e == PositivesOf("system", evidences)[i] IN
         /\ e.args[2] = Render(ValueOf(input).manufacturer)
         /\ e.args[3] = Render(ValueOf(input).model)

C4_Witness ==
  /\ SystemAnswered
  /\ FieldsIncluding(<<"v", "m", "w", "a", "r", "e">>) = 2
  /\ SystemEntriesFor(<<"v", "m", "w", "a", "r", "e">>) = 1

\* C5: every run executes all nine probes, whatever earlier probes found or
\* failed with (the cgroup probe counts as executed when it skips a platform
\* that is not Linux).
C5_AllProbesRun ==
  pc \in {"done", "raised"} => \A p \in ProbeSet : outcome[p] # "pending"

\* Position of a network entry: the interface's place in the answered list,
\* then the prefix's place in virtualMacPrefixes.
IfaceIndex(name) == IndexOf(Digits, name[Len(name)])

InProbeOrder(a, b) ==
  IF IsError(a) THEN FALSE
  ELSE IF IsError(b) THEN TRUE
  ELSE IF a.probe = "mode"
    THEN /\ a.tmpl = "app.isPackaged=false (development mode)"
         /\ b.tmpl = "NODE_ENV=development"
  ELSE IF a.probe = "system"
    THEN IndexOf(virtualizationIndicators, a.args[1])
           < IndexOf(virtualizationIndicators, b.args[1])
  ELSE IF a.probe = "bios"
    THEN IndexOf(biosIndicators, a.args[2]) < IndexOf(biosIndicators, b.args[2])
  ELSE IF a.probe = "net"
    THEN \/ IfaceIndex(a.args[1]) < IfaceIndex(b.args[1])
         \/ /\ IfaceIndex(a.args[1]) = IfaceIndex(b.args[1])
            /\ IndexOf(virtualMacPrefixes, a.args[3])
                 < IndexOf(virtualMacPrefixes, b.args[3])
  ELSE FALSE

Ordered(seq) ==
  \A i, j \in 1..Len(seq) :
    i < j =>
      \/ IndexOf(Probes, seq[i].probe) < IndexOf(Probes, seq[j].probe)
      \/ /\ seq[i].probe = seq[j].probe
         /\ InProbeOrder(seq[i], seq[j])

\* C6: the evidences are in probe order (execution mode, system identity,
\* chassis, CPU, network, BIOS, UUID, cgroup, environment variable) and,
\* within one probe, in the order its indicators were checked (for the
\* network probe: interface by interface, then prefix by prefix), an error
\* entry coming last; no entry of a later probe precedes one of an earlier.
C6_EvidenceOrder ==
  /\ Ordered(evidences)
  /\ result.returned => Ordered(result.evidences)

C6_Witness ==
  /\ result.returned
  /\ Len(PositivesOf("mode", result.evidences)) = 2
  /\ Len(PositivesOf("system", result.evidences)) = 2
  /\ Len(ErrorsOf("chassis", result.evidences)) = 1
  /\ Len(PositivesOf("net", result.evidences)) = 2
  /\ Len(PositivesOf("bios", result.evidences)) = 2
  /\ Len(PositivesOf("envvar", result.evidences)) = 1

\* C7: no probe leaves both a positive entry and an error entry in the
\* evidences: a probe that fails contributes its error entry only.
C7_FailedProbeNoPositive ==
  \A p \in ProbeSet :
    ~(PositivesOf(p, evidences) # <<>> /\ ErrorsOf(p, evidences) # <<>>)

\* C8: the cgroup probe pushes exactly one positive entry and raises the
\* verdict when the platform is "linux", /proc/1/cgroup was read and its
\* content includes "docker" or "lxc"; in every other case (another platform,
\* an unreadable file, other content) it changes neither the evidences nor
\* the verdict, and it never pushes an error entry.
CgroupFound(p, r) ==
  /\ p = <<"l", "i", "n", "u", "x">>
  /\ r.status = "resolved"
  /\ includes(ValueOf(r), <<"d", "o", "c", "k", "e", "r">>) \/ includes(ValueOf(r), <<"l", "x", "c">>)

C8_CgroupProbe ==
  [][pc = "cgroup" =>
       IF CgroupFound(platform, input')
       THEN /\ evidences' = Append(evidences, Positive("cgroup", CgroupTmpl, <<>>))
            /\ isEmulator'
       ELSE /\ evidences' = evidences
            /\ isEmulator' = isEmulator]_vars

C8_Witness ==
  /\ pc = "envvar"
  /\ CgroupFound(platform, input)
  /\ includes(ValueOf(input), <<"d", "o", "c", "k", "e", "r">>) /\ includes(ValueOf(input), <<"l", "x", "c">>)
  /\ Len(PositivesOf("cgroup", evidences)) = 1
  /\ Len(evidences) = 1

\* The names a probe's category goes by.
Category ==
  [system  |-> {"system", "system identity", "system virtualization",
                "manufacturer/model"},
   chassis |-> {"chassis"},
   cpu     |-> {"CPU"},
   net     |-> {"network", "network interface"},
   bios    |-> {"BIOS"},
   uuid    |-> {"UUID"}]

\* The name each catch branch of the "Error retrieving" form uses.
CategoryInCode ==
  [chassis |-> "chassis", cpu |-> "CPU", net |-> "network interface",
   bios |-> "BIOS", uuid |-> "UUID"]

\* C9 as stated: every error entry reads "Error retrieving <category>
\* information: <message>", for all six querying probes.
C9_ErrorFormAllSix ==
  \A i \in 1..Len(evidences) :
    IsError(evidences[i]) =>
      \E c \in Category[evidences[i].probe] :
        evidences[i].tmpl
          = "Error retrieving " \o c \o " information: ${error.message}"

\* C9 amended: the error entry of the chassis, CPU, network, BIOS and UUID
\* probes reads "Error retrieving <category> information: <message>" (with
\* "network interface" for the network probe); the system identity probe's
\* reads "Error detecting system virtualization: <message>".  In each,
\* <message> is the message property of the thrown value.
C9_ErrorForm ==
  /\ \A i \in 1..Len(evidences) :
       IsError(evidences[i]) =>
         /\ evidences[i].probe \in SiProbes
         /\ evidences[i].tmpl
              = IF evidences[i].probe = "system"
                THEN "Error detecting system virtualization: ${error.message}"
                ELSE "Error retrieving " \o CategoryInCode[evidences[i].probe]
                       \o " information: ${error.message}"
  /\ \A p \in SiProbes :
       (pc = After[p] /\ outcome[p] = "rejected") =>
         /\ evidences # <<>>
         /\ evidences[Len(evidences)].probe = p
         /\ IsError(evidences[Len(evidences)])
         /\ evidences[Len(evidences)].msg = input.thrown.message

C9_Witness ==
  /\ result.returned
  /\ \A p \in SiProbes : Len(ErrorsOf(p, result.evidences)) = 1
  /\ outcome["system"] = "rejected"
  /\ outcome["net"] = "threw"

\* The network probe has just gone through an answered list.
NetAnswered ==
  /\ pc = "bios"
  /\ input.status = "resolved"
  /\ ~IsNull(input)
NetEntriesFor(name) ==
  Len(SelectSeq(PositivesOf("net", evidences), LAMBDA e : e.args[1] = name))
PrefixSet == {virtualMacPrefixes[j] : j \in 1..Len(virtualMacPrefixes)}

\* C10: the network probe matches by exact comparison: an interface the loop
\* reaches yields one entry if the upper-cased first 8 characters of its MAC
\* equal one of the fixed prefixes, and none otherwise (no MAC, or a prefix
\* that merely occurs elsewhere in the MAC); every entry quotes a MAC that
\* begins, upper-cased, with the prefix it names.
C10_MacExactPrefix ==
  NetAnswered =>
    LET list == ValueOf(input) IN
    /\ \A i \in 1..Len(list) :
         ~list[i].null =>
           NetEntriesFor(list[i].iface)
             = IF /\ i < FirstNull(list)
                  /\ Truthy(list[i].mac)
                  /\ toUpperCase(SubSeq(list[i].mac.s, 1, MacPrefixLen))
                       \in PrefixSet
               THEN 1 ELSE 0
    /\ \A i \in 1..Len(PositivesOf("net", evidences)) :
         LET e == PositivesOf("net", evidences)[i] IN
         /\ e.args[3] \in PrefixSet
         /\ SubSeq(toUpperCase(e.args[2]), 1, Len(e.args[3])) = e.args[3]

C10_Witness ==
  /\ NetAnswered
  /\ Len(ValueOf(input)) = 2
  /\ ValueOf(input)[1].mac = Str(<<"A", "A", ":", "0", "0", ":", "1", "C", ":", "1", "4", ":", "B", "B", ":", "C", "C">>)
  /\ ValueOf(input)[2].mac = Str(<<"0", "0", ":", "1", "c", ":", "1", "4", ":", "a", "a", ":", "b", "b", ":", "c", "c">>)
  /\ NetEntriesFor(IfaceName(1)) = 0
  /\ NetEntriesFor(IfaceName(2)) = 1

====
